---- MODULE Spec2Model ----
(***************************************************************************)
(* Model of src/api/repos/releases.rs: the releases handler of a           *)
(* repository, its two request builders (ListReleasesBuilder and           *)
(* CreateReleaseBuilder) and the calls their send methods hand to the      *)
(* Octocrab client.                                                        *)
(*                                                                         *)
(* Option<T> is modelled as a sequence of length at most one: <<>> is None *)
(* and <<v>> is Some(v).  A serialized builder is a function from the      *)
(* names of the serialized fields to their values.                         *)
(***************************************************************************)
EXTENDS Integers, Sequences, FiniteSets, TLC

\* Number of operations (constructions, setter calls, sends, answers of the
\* client, drops) performed in one behaviour.
MaxSteps == 5
\* The same, in behaviours where only list builders are made.
MaxListSteps == 7
\* Number of builders made from the releases handler in one behaviour.
MaxBuilders == 2

None == <<>>
Some(v) == <<v>>
is_none(o) == o = <<>>
unwrap(o) == o[1]

(***************************************************************************)
(* Inputs the callers pass.                                                *)
(***************************************************************************)
\* RepoHandler identities (owner, repo) the releases handler may be bound to.
Owners == {"owner", "XAMPPRocky"}
Repos == {"repo", "octocrab"}
\* create(tag_name): any &str, the empty one included.
TagNames == {"v1.0.0", ""}
\* per_page(impl Into<u8>): a u8, or a bool (From<bool> for u8).
PerPageArgs == {[t |-> "u8", n |-> 100], [t |-> "bool", b |-> TRUE]}
\* page(impl Into<u32>): a u32, or a narrower unsigned integer.
PageArgs == {[t |-> "u32", n |-> 1], [t |-> "u8", n |-> 2]}
TargetArgs == {"main", "dev"}
NameArgs == {"Version 1.0.0", ""}
BodyArgs == {"Announcing 1.0.0!", ""}
BoolArgs == BOOLEAN

\* Into::<u8>::into for the argument types above: From<u8> keeps the value,
\* From<bool> gives 1 for true and 0 for false.  No conversion can lose bits.
Into_u8(x) == IF x.t = "bool" THEN (IF x.b THEN 1 ELSE 0) ELSE x.n
\* Into::<u32>::into for the argument types above (widening, lossless).
Into_u32(x) == IF x.t = "bool" THEN (IF x.b THEN 1 ELSE 0) ELSE x.n

ListFields == {"per_page", "page"}
CreateOptFields == {"target_commitish", "name", "body", "draft", "prerelease"}

VARIABLES
    parent,     \* the RepoHandler the releases handler borrows: [owner, repo]
    builders,   \* the builders made so far, in order of construction
    pc,         \* per builder: "building"; "awaiting" while its send is suspended;
                \* "done" once send returned; "dropped" if its future was dropped
    calls,      \* the calls received by the Octocrab client, in order, each
                \* with the client's answer once it has given one
    result,     \* per builder: the value its send returned, once it has
    args,       \* per builder and field: the arguments its callers passed, in order
    steps       \* the number of operations performed so far

vars == <<parent, builders, pc, calls, result, args, steps>>

Ids == 1..Len(builders)

(***************************************************************************)
(* ReleasesHandler                                                         *)
(***************************************************************************)
\* ReleasesHandler::new: the handler only borrows its parent, the RepoHandler
\* held in the variable parent.
ReleasesHandler_new(p) == [parent |-> p]

\* A create that refuses the empty tag name by substituting a placeholder.
create_nonempty(handler, tag_name) ==
    [kind |-> "create", handler |-> handler,
     tag_name |-> IF tag_name = "" THEN "untagged" ELSE tag_name,
     target_commitish |-> None, name |-> None, body |-> None,
     draft |-> None, prerelease |-> None]

\* ListReleasesBuilder::new
ListReleasesBuilder_new(handler) ==
    [kind |-> "list", handler |-> handler, per_page |-> None, page |-> None]

\* CreateReleaseBuilder::new
CreateReleaseBuilder_new(handler, tag_name) ==
    [kind |-> "create", handler |-> handler, tag_name |-> tag_name,
     target_commitish |-> None, name |-> None, body |-> None,
     draft |-> None, prerelease |-> None]

\* ReleasesHandler::list
list(handler) == ListReleasesBuilder_new(handler)

\* ReleasesHandler::create: tag_name.as_ref() is passed on as it is.
create(handler, tag_name) == CreateReleaseBuilder_new(handler, tag_name)

(***************************************************************************)
(* Setters.  Each takes the builders and the builder it is called on, and  *)
(* gives the builders with that builder replaced by the returned one.      *)
(***************************************************************************)
\* A per_page kept in state shared by every list builder.
per_page_shared(bs, i, v) ==
    [j \in DOMAIN bs |-> IF bs[j].kind = "list"
                          THEN [bs[j] EXCEPT !.per_page = Some(Into_u8(v))]
                          ELSE bs[j]]
per_page(bs, i, v) == [bs EXCEPT ![i].per_page = Some(Into_u8(v))]
\* A page that keeps the first value it was given.
page_first(bs, i, v) ==
    IF is_none(bs[i].page) THEN [bs EXCEPT ![i].page = Some(Into_u32(v))] ELSE bs
page(bs, i, v) == [bs EXCEPT ![i].page = Some(Into_u32(v))]
target_commitish(bs, i, v) == [bs EXCEPT ![i].target_commitish = Some(v)]
\* A name that also overwrites the tag name.
name_as_tag(bs, i, v) == [bs EXCEPT ![i].name = Some(v), ![i].tag_name = v]
name(bs, i, v) == [bs EXCEPT ![i].name = Some(v)]
body(bs, i, v) == [bs EXCEPT ![i].body = Some(v)]
draft(bs, i, v) == [bs EXCEPT ![i].draft = Some(v)]
prerelease(bs, i, v) == [bs EXCEPT ![i].prerelease = Some(v)]

(***************************************************************************)
(* Serialization (derive(serde::Serialize)): handler is skipped, and an    *)
(* Option field is skipped when it is None.                                *)
(***************************************************************************)
\* A serializer without skip_serializing_if: every field is written.
ListSerialize_all(b) == [f \in ListFields |-> b[f]]
ListSerialize(b) ==
    [f \in {g \in ListFields : ~is_none(b[g])} |-> unwrap(b[f])]

\* A serializer that also skips a flag that is Some(false).
CreateSerialize_skip_false(b) ==
    [f \in {"tag_name"} \cup
        {g \in CreateOptFields :
            /\ ~is_none(b[g])
            /\ ~(g \in {"draft", "prerelease"} /\ b[g] = Some(FALSE))} |->
        IF f = "tag_name" THEN b.tag_name ELSE unwrap(b[f])]
CreateSerialize(b) ==
    [f \in {"tag_name"} \cup {g \in CreateOptFields : ~is_none(b[g])} |->
        IF f = "tag_name" THEN b.tag_name ELSE unwrap(b[f])]

\* format!("/repos/{owner}/{repo}/releases", ..)
ListUrl(p) == "/repos/" \o p.owner \o "/" \o p.repo \o "/releases"
\* A url with the two arguments of format! exchanged.
CreateUrl_swapped(p) == "/repos/" \o p.repo \o "/" \o p.owner \o "/releases"
CreateUrl(p) == "/repos/" \o p.owner \o "/" \o p.repo \o "/releases"

\* A send that goes on to fetch the page after the one asked for.
ListSendCalls_follow(b, p) ==
    LET q == [verb |-> "GET", path |-> ListUrl(p), params |-> Some(ListSerialize(b))]
    IN  << q, q >>
\* The calls ListReleasesBuilder::send makes on the client, in order.
ListSendCalls(b, p) ==
    << [verb |-> "GET", path |-> ListUrl(p), params |-> Some(ListSerialize(b))] >>

\* The calls CreateReleaseBuilder::send makes on the client, in order.
CreateSendCalls(b, p) ==
    << [verb |-> "GET", path |-> CreateUrl(p), params |-> Some(CreateSerialize(b))] >>

\* A send that turns a failed listing into an empty last page.
ListSendReturn_swallow(r) == IF r = "Err(Http)" THEN "Ok(Page{last})" ELSE r
\* What send returns, given what the awaited client call returned.
ListSendReturn(r) == r
CreateSendReturn(r) == r

\* What the client may answer.
ListReplies == {"Ok(Page{next})", "Ok(Page{last})", "Err(Http)"}
CreateReplies == {"Ok(Release)", "Err(GitHub)"}

(***************************************************************************)
(* Initial state: a releases handler bound to some repository, no builder. *)
(***************************************************************************)
Init ==
    /\ parent \in [owner : Owners, repo : Repos]
    /\ builders = <<>>
    /\ pc = <<>>
    /\ calls = <<>>
    /\ result = <<>>
    /\ args = <<>>
    /\ steps = 0

NoArgs == [f \in {"tag_name"} \cup ListFields \cup CreateOptFields |-> <<>>]


Fresh(b, tag) ==
    /\ Len(builders) < MaxBuilders
    /\ builders' = Append(builders, b)
    /\ pc' = Append(pc, "building")
    /\ result' = Append(result, None)
    /\ args' = Append(args, [NoArgs EXCEPT !["tag_name"] = tag])
    /\ UNCHANGED <<parent, calls>>

\* releases.list()
List == Fresh(list(ReleasesHandler_new("parent")), <<>>)

\* releases.create(tag_name)
Create == \E t \in TagNames : Fresh(create(ReleasesHandler_new("parent"), t), <<t>>)

Set(i, f, v, bs) ==
    /\ pc[i] = "building"
    /\ builders' = bs
    /\ args' = [args EXCEPT ![i][f] = Append(@, v)]
    /\ UNCHANGED <<parent, pc, calls, result>>

PerPage(i) == builders[i].kind = "list" /\
    \E v \in PerPageArgs : Set(i, "per_page", v, per_page(builders, i, v))
Page(i) == builders[i].kind = "list" /\
    \E v \in PageArgs : Set(i, "page", v, page(builders, i, v))
TargetCommitish(i) == builders[i].kind = "create" /\
    \E v \in TargetArgs : Set(i, "target_commitish", v, target_commitish(builders, i, v))
Name(i) == builders[i].kind = "create" /\
    \E v \in NameArgs : Set(i, "name", v, name(builders, i, v))
Body(i) == builders[i].kind = "create" /\
    \E v \in BodyArgs : Set(i, "body", v, body(builders, i, v))
Draft(i) == builders[i].kind = "create" /\
    \E v \in BoolArgs : Set(i, "draft", v, draft(builders, i, v))
Prerelease(i) == builders[i].kind = "create" /\
    \E v \in BoolArgs : Set(i, "prerelease", v, prerelease(builders, i, v))

\* The calls cs as the client receives them from builder i, not yet answered.
Received(cs, i) ==
    [k \in 1..Len(cs) |-> [from |-> i, verb |-> cs[k].verb, path |-> cs[k].path,
                            params |-> cs[k].params, reply |-> None]]

\* send, up to its await: the url is formatted, the builder is serialized and
\* consumed and the client is called; send is suspended until the answer.
Send(i, cs) ==
    /\ pc[i] = "building"
    /\ calls' = calls \o Received(cs, i)
    /\ pc' = [pc EXCEPT ![i] = "awaiting"]
    /\ UNCHANGED <<parent, builders, result, args>>

ListSend(i) == builders[i].kind = "list" /\
    Send(i, ListSendCalls(builders[i], parent))
CreateSend(i) == builders[i].kind = "create" /\
    Send(i, CreateSendCalls(builders[i], parent))

\* The client answers r to the oldest unanswered call of builder i.  A send
\* still awaiting it resumes and returns ret; a dropped one returns nothing.
Reply(i, r, ret) ==
    /\ pc[i] \in {"awaiting", "dropped"}
    /\ \E k \in 1..Len(calls) :
          /\ calls[k].from = i /\ is_none(calls[k].reply)
          /\ \A j \in 1..(k - 1) : calls[j].from = i => ~is_none(calls[j].reply)
          /\ calls' = [calls EXCEPT ![k].reply = Some(r)]
    /\ IF pc[i] = "awaiting"
       THEN /\ result' = [result EXCEPT ![i] = Some(ret)]
            /\ pc' = [pc EXCEPT ![i] = "done"]
       ELSE UNCHANGED <<result, pc>>
    /\ UNCHANGED <<parent, builders, args>>

ListReply(i) == builders[i].kind = "list" /\
    \E r \in ListReplies : Reply(i, r, ListSendReturn(r))
CreateReply(i) == builders[i].kind = "create" /\
    \E r \in CreateReplies : Reply(i, r, CreateSendReturn(r))

\* The caller drops the future of a suspended send: it will return nothing.
Drop(i) ==
    /\ pc[i] = "awaiting"
    /\ pc' = [pc EXCEPT ![i] = "dropped"]
    /\ UNCHANGED <<parent, builders, calls, result, args>>

\* One more operation, of at most max.
Step(max) == steps < max /\ steps' = steps + 1

Next ==
    \/ Step(MaxSteps) /\ List
    \/ Step(MaxSteps) /\ Create
    \/ \E i \in Ids : Step(MaxSteps) /\ PerPage(i)
    \/ \E i \in Ids : Step(MaxSteps) /\ Page(i)
    \/ \E i \in Ids : Step(MaxSteps) /\ TargetCommitish(i)
    \/ \E i \in Ids : Step(MaxSteps) /\ Name(i)
    \/ \E i \in Ids : Step(MaxSteps) /\ Body(i)
    \/ \E i \in Ids : Step(MaxSteps) /\ Draft(i)
    \/ \E i \in Ids : Step(MaxSteps) /\ Prerelease(i)
    \/ \E i \in Ids : Step(MaxSteps) /\ ListSend(i)
    \/ \E i \in Ids : Step(MaxSteps) /\ CreateSend(i)
    \/ \E i \in Ids : Step(MaxSteps) /\ ListReply(i)
    \/ \E i \in Ids : Step(MaxSteps) /\ CreateReply(i)
    \/ \E i \in Ids : Step(MaxSteps) /\ Drop(i)

Spec == Init /\ [][Next]_vars

\* The callers only list releases.
NextList ==
    \/ Step(MaxListSteps) /\ List
    \/ \E i \in Ids : Step(MaxListSteps) /\ PerPage(i)
    \/ \E i \in Ids : Step(MaxListSteps) /\ Page(i)
    \/ \E i \in Ids : Step(MaxListSteps) /\ ListSend(i)
    \/ \E i \in Ids : Step(MaxListSteps) /\ ListReply(i)
    \/ \E i \in Ids : Step(MaxListSteps) /\ Drop(i)

SpecList == Init /\ [][NextList]_vars

(***************************************************************************)
(* What the properties below speak of.                                     *)
(***************************************************************************)
\* The calls of the sequence cs that builder i made.
CallsFrom(cs, i) == SelectSeq(cs, LAMBDA c : c.from = i)
CallsOf(i) == CallsFrom(calls, i)
Last(h) == h[Len(h)]
\* The value an argument of per_page or page stands for on the wire.
Wire(a) == CASE a = [t |-> "bool", b |-> TRUE] -> 1
             [] a = [t |-> "bool", b |-> FALSE] -> 0
             [] OTHER -> a.n
\* The optional fields builder i was given at least once.
WasSet(i, fields) == {f \in fields : args[i][f] # <<>>}
IsList(i) == builders[i].kind = "list"
IsCreate(i) == builders[i].kind = "create"
\* Builder i has been sent: its send has made its call on the client.
Sent(i) == pc[i] # "building"
\* The parameter bag of the (first) call builder i made.
BagOf(i) == unwrap(CallsOf(i)[1].params)
\* The last argument given to each field of builder i, if any.
LastArgs(i) == [f \in DOMAIN args[i] |->
                  IF args[i][f] = <<>> THEN <<>> ELSE <<Last(args[i][f])>>]

\* C1 (as claimed): no call made by the send of a create builder uses the
\* read-only GET operation of the client.
C1_CreateNeverUsesGet ==
    \A k \in 1..Len(calls) : IsCreate(calls[k].from) => calls[k].verb # "GET"

\* C2: the bag a list builder's send hands over holds exactly the fields
\* among per_page and page that were set at least once; none of them when no
\* setter was called; an unset field is absent, not present as a null.
C2_ListOmission ==
    \A i \in Ids : IsList(i) /\ Sent(i) =>
        /\ Len(CallsOf(i)) >= 1
        /\ \A k \in 1..Len(CallsOf(i)) :
              /\ ~is_none(CallsOf(i)[k].params)
              /\ DOMAIN unwrap(CallsOf(i)[k].params) = WasSet(i, ListFields)
              /\ \A f \in DOMAIN unwrap(CallsOf(i)[k].params) :
                    unwrap(CallsOf(i)[k].params)[f] \in Nat

\* A list builder sent with no setter (empty bag) and one sent with page only.
C2_Witness ==
    \E i, j \in Ids :
        /\ IsList(i) /\ Sent(i) /\ WasSet(i, ListFields) = {}
        /\ DOMAIN BagOf(i) = {}
        /\ IsList(j) /\ Sent(j) /\ WasSet(j, ListFields) = {"page"}
        /\ DOMAIN BagOf(j) = {"page"}

\* C3: the body a create builder's send hands over holds tag_name as given to
\* create plus exactly the optional fields set at least once; a flag set to
\* false is present with the value false.
C3_CreateOmission ==
    \A i \in Ids : IsCreate(i) /\ Sent(i) =>
        /\ Len(CallsOf(i)) >= 1
        /\ ~is_none(CallsOf(i)[1].params)
        /\ DOMAIN BagOf(i) = {"tag_name"} \cup WasSet(i, CreateOptFields)
        /\ BagOf(i).tag_name = args[i].tag_name[1]
        /\ \A f \in {"draft", "prerelease"} :
              (args[i][f] # <<>> /\ Last(args[i][f]) = FALSE) =>
                  (f \in DOMAIN BagOf(i) /\ BagOf(i)[f] = FALSE)

\* create("v1.0.0").target_commitish("main").draft(false) has been sent.
C3_Witness ==
    \E i \in Ids :
        /\ IsCreate(i) /\ Sent(i)
        /\ args[i].tag_name = <<"v1.0.0">>
        /\ args[i].target_commitish = <<"main">>
        /\ args[i].draft = <<FALSE>>
        /\ WasSet(i, CreateOptFields) = {"target_commitish", "draft"}
        /\ BagOf(i) = [tag_name |-> "v1.0.0", target_commitish |-> "main",
                       draft |-> FALSE]

\* The builders after one more call of the setter of field f with argument a.
SetAgain(f, i, a) ==
    CASE f = "per_page" -> per_page(builders, i, a)
      [] f = "page" -> page(builders, i, a)
      [] f = "target_commitish" -> target_commitish(builders, i, a)
      [] f = "name" -> name(builders, i, a)
      [] f = "body" -> body(builders, i, a)
      [] f = "draft" -> draft(builders, i, a)
      [] f = "prerelease" -> prerelease(builders, i, a)

FieldsOf(i) == IF IsList(i) THEN ListFields ELSE CreateOptFields
OnWire(i, a) == IF IsList(i) THEN Wire(a) ELSE a

\* C4: a field holds the value of the last call of its setter, that value is
\* the one serialized at send, and setting the value a field already holds
\* leaves the builder as it is.
C4_LastSetWins ==
    \A i \in Ids : \A f \in WasSet(i, FieldsOf(i)) :
        /\ builders[i][f] = Some(OnWire(i, Last(args[i][f])))
        /\ Sent(i) => /\ f \in DOMAIN BagOf(i)
                      /\ BagOf(i)[f] = OnWire(i, Last(args[i][f]))
        /\ SetAgain(f, i, Last(args[i][f])) = builders

\* A sent builder one of whose setters was called twice, with two values, and
\* another of whose setters was called too.
C4_Witness ==
    \E i \in Ids : \E f, g \in WasSet(i, FieldsOf(i)) :
        /\ Sent(i) /\ f # g
        /\ Len(args[i][f]) = 2
        /\ OnWire(i, args[i][f][1]) # OnWire(i, args[i][f][2])
        /\ BagOf(i)[f] = OnWire(i, args[i][f][2])

\* C5: a send makes exactly one call on the client, none before it and no
\* second one after a failure; when it returns, it returns what the client
\* answered to that call, a failure included; until then it has returned
\* nothing.
C5_OneCallPassedThrough ==
    \A i \in Ids :
        /\ pc[i] = "building" => CallsOf(i) = <<>>
        /\ pc[i] # "building" => Len(CallsOf(i)) = 1
        /\ pc[i] = "done" => /\ ~is_none(CallsOf(i)[1].reply)
                             /\ result[i] = CallsOf(i)[1].reply
        /\ pc[i] # "done" => result[i] = None

\* A list send has returned the client's failure while a create send is
\* suspended, its one call the last the client received and still unanswered.
C5_Witness ==
    \E i, j \in Ids :
        /\ IsList(i) /\ pc[i] = "done" /\ CallsOf(i)[1].reply = Some("Err(Http)")
        /\ result[i] = Some("Err(Http)")
        /\ IsCreate(j) /\ pc[j] = "awaiting" /\ is_none(CallsOf(j)[1].reply)
        /\ CallsOf(j)[1] = calls[Len(calls)]

\* C6 (as claimed): no call carries an empty tag_name.
C6_NoEmptyTagSent ==
    \A k \in 1..Len(calls) :
        IsCreate(calls[k].from) => unwrap(calls[k].params).tag_name # ""

\* C6 (amended): create validates nothing: the builder holds the tag name it
\* was given, the empty one included, its send hands that tag name to the
\* client unchanged, and constructing it makes no call.
C6_TagNameNotValidated ==
    \A i \in Ids : IsCreate(i) =>
        /\ builders[i].tag_name = args[i].tag_name[1]
        /\ ~Sent(i) => CallsOf(i) = <<>>
        /\ Sent(i) => BagOf(i).tag_name = args[i].tag_name[1]

\* create("") has been sent, and the call the client received carries the
\* empty tag name.
C6_Witness ==
    \E i \in Ids : IsCreate(i) /\ Sent(i) /\ args[i].tag_name = <<"">>
                   /\ BagOf(i).tag_name = ""

\* The path of the releases of each repository the model binds to.
ReleasesPath ==
    [p \in [owner : Owners, repo : Repos] |->
        CASE p = [owner |-> "owner", repo |-> "repo"] -> "/repos/owner/repo/releases"
          [] p = [owner |-> "owner", repo |-> "octocrab"] -> "/repos/owner/octocrab/releases"
          [] p = [owner |-> "XAMPPRocky", repo |-> "repo"] -> "/repos/XAMPPRocky/repo/releases"
          [] p = [owner |-> "XAMPPRocky", repo |-> "octocrab"] ->
                "/repos/XAMPPRocky/octocrab/releases"]

\* C7: every call, of a list send or of a create send and whatever setters
\* were applied, goes to /repos/{owner}/{repo}/releases of the parent.
C7_Path ==
    \A k \in 1..Len(calls) : calls[k].path = ReleasesPath[parent]

\* For owner "owner" and repo "repo": a list send with a setter applied and a
\* create send with none, both to /repos/owner/repo/releases.
C7_Witness ==
    /\ parent = [owner |-> "owner", repo |-> "repo"]
    /\ \E i, j \in Ids :
          /\ IsList(i) /\ Sent(i) /\ WasSet(i, ListFields) # {}
          /\ IsCreate(j) /\ Sent(j) /\ WasSet(j, CreateOptFields) = {}
          /\ CallsOf(i)[1].path = "/repos/owner/repo/releases"
          /\ CallsOf(j)[1].path = "/repos/owner/repo/releases"

\* What the callers handed over in the calls cs, without the client's answers.
Requests(cs) == [k \in 1..Len(cs) |-> [verb |-> cs[k].verb, path |-> cs[k].path,
                                        params |-> cs[k].params]]
\* Builder i has not been operated on in this step.
Untouched(i) == args'[i] = args[i] /\ pc'[i] = pc[i]

\* C8: what a send hands over is a function of the builder's own construction
\* arguments and setter calls, and no operation on one builder changes
\* another builder, its calls or result, or the parent's owner and repo.
C8_Isolation ==
    /\ [](\A i, j \in Ids :
            (Sent(i) /\ Sent(j) /\ builders[i].kind = builders[j].kind
                /\ LastArgs(i) = LastArgs(j)) =>
            /\ Len(CallsOf(i)) = Len(CallsOf(j))
            /\ \A k \in 1..Len(CallsOf(i)) :
                  /\ CallsOf(i)[k].path = CallsOf(j)[k].path
                  /\ CallsOf(i)[k].params = CallsOf(j)[k].params)
    /\ [][/\ parent' = parent
          /\ \A i \in Ids : Untouched(i) =>
                /\ builders'[i] = builders[i]
                /\ result'[i] = result[i]
                /\ Requests(CallsFrom(calls', i)) = Requests(CallsOf(i))]_vars

\* Two builders of one kind, configured differently, the later made one sent
\* first and both sends suspended at once: each call carries its own
\* builder's parameters.
C8_Witness ==
    /\ Len(calls) = 2 /\ Len(builders) = 2
    /\ calls[1].from = 2 /\ calls[2].from = 1
    /\ pc[1] = "awaiting" /\ pc[2] = "awaiting"
    /\ builders[1].kind = builders[2].kind
    /\ WasSet(1, FieldsOf(1)) # {} /\ WasSet(2, FieldsOf(2)) = {}
    /\ calls[1].params # calls[2].params

\* C9: the client has received as many calls as sends were made (an answer
\* of the client adds none); and when a list send whose builder was given
\* page p returned a page with a next page,
\* a later made builder given page p + 1 sends to the same path with
\* page = p + 1.
C9_NextPage ==
    /\ Len(calls) = Cardinality({i \in Ids : Sent(i)})
    /\ \A k1, k2 \in 1..Len(calls) :
        LET i == calls[k1].from
            j == calls[k2].from
        IN  (/\ k1 < k2 /\ i < j
             /\ IsList(i) /\ IsList(j)
             /\ pc[i] = "done" /\ result[i] = Some("Ok(Page{next})")
             /\ args[i].page # <<>> /\ args[j].page # <<>>
             /\ Wire(Last(args[j].page)) = Wire(Last(args[i].page)) + 1) =>
            /\ calls[k2].path = calls[k1].path
            /\ "page" \in DOMAIN unwrap(calls[k2].params)
            /\ unwrap(calls[k2].params).page = Wire(Last(args[i].page)) + 1

\* page(1) was sent and answered with a next page, then page(2) was sent.
C9_Witness ==
    /\ Len(calls) = 2 /\ Len(builders) = 2
    /\ calls[1].from = 1 /\ calls[2].from = 2
    /\ calls[1].reply = Some("Ok(Page{next})")
    /\ result[1] = Some("Ok(Page{next})")
    /\ unwrap(calls[1].params) = [page |-> 1]
    /\ unwrap(calls[2].params) = [page |-> 2]
    /\ calls[2].path = calls[1].path

\* C10: a setter changes no field but its own, neither the handler reference
\* nor tag_name, and makes no call; tag_name stays the one given to create,
\* and a builder makes no call before its send.
C10_SetterFrame ==
    /\ [](\A i \in Ids :
            /\ IsCreate(i) => builders[i].tag_name = args[i].tag_name[1]
            /\ ~Sent(i) => CallsOf(i) = <<>>)
    /\ [][\A i \in Ids : args'[i] # args[i] =>
            /\ calls' = calls /\ result' = result /\ pc' = pc
            /\ builders'[i].kind = builders[i].kind
            /\ builders'[i].handler = builders[i].handler
            /\ IsCreate(i) => builders'[i].tag_name = builders[i].tag_name
            /\ \A f \in FieldsOf(i) :
                  args'[i][f] = args[i][f] => builders'[i][f] = builders[i][f]]_vars

\* A create builder with two setters applied and not yet sent: tag_name and
\* the three other fields are as create left them, and no call was made.
C10_Witness ==
    \E i \in Ids :
        /\ IsCreate(i) /\ ~Sent(i)
        /\ WasSet(i, CreateOptFields) = {"name", "draft"}
        /\ builders[i].tag_name = "v1.0.0" /\ args[i].tag_name = <<"v1.0.0">>
        /\ is_none(builders[i].target_commitish) /\ is_none(builders[i].body)
        /\ is_none(builders[i].prerelease)
        /\ calls = <<>>
====
